---- MODULE Spec2Model ----
(***************************************************************************)
(* Settlement-prediction pipeline of fairmediator.ai: the trainer's        *)
(* persistence (train_model.py), the feature engine's query path           *)
(* (feature_engineering.py), the serving endpoint (predict_api.py) and the *)
(* data cleaner (clean_data.py).                                           *)
(*                                                                         *)
(* Spec        : trainer process, models directory, serving endpoint.      *)
(* SpecApi     : the serving endpoint over a given models directory, with  *)
(*               single and batch requests.                                *)
(* SpecCleaner : one SettlementDataCleaner object, clean_all / save.       *)
(***************************************************************************)
EXTENDS Integers, Sequences, FiniteSets, TLC

(***************************************************************************)
(* Bounds of the model.                                                    *)
(***************************************************************************)
\* training runs of the trainer process (each yields a new fitted model)
MaxTrain == 1
\* save_model calls (each gets a timestamp of its own)
MaxSaves == 2

(***************************************************************************)
(* Program constants.                                                      *)
(***************************************************************************)
\* predict_api.py:236  len(requests) > 100
MaxBatchSize == 100
\* predict_api.py:60,61  settlement_year ge / le
MinSettlementYear == 2010
MaxSettlementYear == 2030
\* feature_engineering.py:225,227  defendant size thresholds (dollars)
SmallBelow == 1000000
MediumBelow == 10000000
\* feature_engineering.py:236  hash(jurisdiction) % 50
HashBuckets == 50
\* train_model.py:38,39  default hyperparameters
NEstimators == 100
MaxDepth == 20

\* Python's None
None == [none |-> TRUE]

(***************************************************************************)
(* Strings.  str.lower() on the strings the model uses.                    *)
(***************************************************************************)
Lower(s) ==
    CASE s = "Healthcare" -> "healthcare"
      [] s = "PHARMACEUTICAL" -> "pharmaceutical"
      [] s = "Other" -> "other"
      [] OTHER -> s

\* float('inf') as a damages value (JSON Infinity / 1e999); every finite
\* amount of the model is smaller
Inf == 2000000000
IsInf(x) == x = Inf

(***************************************************************************)
(* Vocabularies (predict_api.py) and code tables (feature_engineering.py). *)
(***************************************************************************)
valid_fraud_types ==
    <<"healthcare", "defense", "covid", "procurement",
      "grant", "housing", "education", "other">>

valid_industries ==
    <<"healthcare", "defense_contractor", "pharmaceutical", "technology",
      "construction", "education", "financial", "other">>

Range(s) == {s[i] : i \in DOMAIN s}

\* x in list
InList(x, list) == \E i \in DOMAIN list : list[i] = x

fraud_type_mapping ==
    [healthcare |-> 0, defense |-> 1, covid |-> 2, procurement |-> 3,
     grant |-> 4, housing |-> 5, education |-> 6, other |-> 7]

industry_mapping ==
    [healthcare |-> 0, defense_contractor |-> 1, pharmaceutical |-> 2,
     technology |-> 3, construction |-> 4, education |-> 5,
     financial |-> 6, other |-> 7]

\* severity weights, times 10
severity_weights ==
    [healthcare |-> 12, defense |-> 15, covid |-> 13, procurement |-> 10,
     grant |-> 8, housing |-> 11, education |-> 9, other |-> 10]

\* dict.get(key, default)
DictGet(d, key, default) == IF key \in DOMAIN d THEN d[key] ELSE default

\* the 12 feature names create_features stores, in order
FeatureColumns ==
    <<"fraud_type_code", "industry_code", "jurisdiction_code", "whistleblower",
      "defendant_size", "settlement_year", "fraud_severity",
      "industry_fraud_interaction", "years_since_2010",
      "whistleblower_fraud_interaction", "jurisdiction_risk",
      "size_fraud_interaction">>

(***************************************************************************)
(* Objects.                                                                *)
(*   RandomForestRegressor : [fitted, version]        version 0 = unfitted *)
(*   StandardScaler        : [fitted, version]                             *)
(*   SettlementFeatureEngine : [scaler, feature_columns]                   *)
(*   SettlementPredictor   : [model, feature_engine, training_stats]       *)
(* version v > 0 names the training run that fitted the object.            *)
(* training_stats: 0 is the empty dict, v > 0 the statistics of run v.     *)
(***************************************************************************)
NewForest == [fitted |-> FALSE, version |-> 0]

NewScaler == [fitted |-> FALSE, version |-> 0]

\* SettlementFeatureEngine.__init__
NewFeatureEngine == [scaler |-> NewScaler, feature_columns |-> <<>>]

\* SettlementPredictor.__init__
NewPredictor ==
    [model |-> NewForest,
     feature_engine |-> NewFeatureEngine,
     training_stats |-> 0]

\* hasattr(obj, name) on an object modelled as a record
HasAttr(obj, name) == obj # None /\ name \in DOMAIN obj

(***************************************************************************)
(* Feature engine, query path.                                             *)
(***************************************************************************)
\* hash(jurisdiction): salted per process (PYTHONHASHSEED); seed is the
\* process's salt
PyHash(seed, s) ==
    CASE s = "Southern District of New York" -> 7 + 13 * seed
      [] s = "Unknown" -> 21 + 5 * seed
      [] OTHER -> 64 + 3 * seed

\* defendant size estimated from damages claimed
QueryDefendantSize(damages_claimed) ==
    IF damages_claimed < SmallBelow THEN 0
    ELSE IF damages_claimed < MediumBelow THEN 1
    ELSE 2

\* np.log1p, kept symbolic: the argument stands for its logarithm
Log1p(x) == [log1p |-> x]

\* the base row create_prediction_input builds, with the derived columns
\* of create_features
QueryRow(seed, req) ==
    LET ft == DictGet(fraud_type_mapping, Lower(req.fraud_type), 7)
        ind == DictGet(industry_mapping, Lower(req.industry), 7)
        jc == PyHash(seed, req.jurisdiction) % HashBuckets
        wb == IF req.whistleblower_present THEN 1 ELSE 0
        size == QueryDefendantSize(req.damages_claimed)
    IN [fraud_type_code |-> ft,
        industry_code |-> ind,
        jurisdiction_code |-> jc,
        whistleblower |-> wb,
        defendant_size |-> size,
        settlement_year |-> req.settlement_year,
        log_amount |-> Log1p(req.damages_claimed),
        fraud_severity |->
            [log1p |-> req.damages_claimed,
             weight |-> DictGet(severity_weights, Lower(req.fraud_type), 10)],
        industry_fraud_interaction |-> ind * ft,
        years_since_2010 |-> req.settlement_year - 2010,
        whistleblower_fraud_interaction |-> wb * ft,
        jurisdiction_risk |-> jc % 3,
        size_fraud_interaction |-> size * ft]

\* the whole table scaled, the target column included
SelectAll(data, columns, scaler) ==
    [columns |-> columns \o <<"log_amount">>,
     scaler |-> scaler.version,
     rows |-> [i \in 1..Len(data) |->
                  [c \in Range(columns) \cup {"log_amount"} |-> data[i][c]]]
              \o <<>>]

\* data[columns] scaled by a scaler: a matrix with these columns in this
\* order; the scaled value of a cell is kept as the cell and the scaler
Select(data, columns, scaler) ==
    [columns |-> columns,
     scaler |-> scaler.version,
     rows |-> [i \in 1..Len(data) |->
                  [c \in Range(columns) |-> data[i][c]]] \o <<>>]

\* create_prediction_input: [raised, error, engine, X].  create_features
\* stores the feature list in the engine before the scaler is applied; the
\* scaler rejects an unfitted state and non-finite input.
CreatePredictionInput(engine, seed, req) ==
    LET eng == [engine EXCEPT !.feature_columns = FeatureColumns]
        row == Select(<<QueryRow(seed, req)>>, eng.feature_columns,
                      engine.scaler)
    IN IF ~engine.scaler.fitted
       THEN [raised |-> TRUE, error |-> "NotFittedError", engine |-> eng, X |-> row]
       ELSE IF IsInf(req.damages_claimed)
       THEN [raised |-> TRUE, error |-> "ValueError", engine |-> eng, X |-> row]
       ELSE [raised |-> FALSE, error |-> "", engine |-> eng, X |-> row]

(***************************************************************************)
(* Predictor.                                                              *)
(***************************************************************************)
\* predict_settlement_range: [raised, error, predictor, X, result].
\* predicted_low / mid / high and confidence are functions of the ensemble
\* and of the scaled feature row; the result keeps what they are computed
\* from.
PredictSettlementRange(p, seed, req) ==
    LET inp == CreatePredictionInput(p.feature_engine, seed, req)
        p2 == [p EXCEPT !.feature_engine = inp.engine]
        none == [input_damages |-> 0, ensemble |-> 0, scaler |-> 0]
    IN IF inp.raised
       THEN [raised |-> TRUE, error |-> inp.error, predictor |-> p2,
             X |-> inp.X, result |-> none]
       ELSE IF ~p.model.fitted
       THEN [raised |-> TRUE, error |-> "AttributeError", predictor |-> p2,
             X |-> inp.X, result |-> none]
       ELSE [raised |-> FALSE, error |-> "", predictor |-> p2,
             X |-> inp.X,
             result |-> [input_damages |-> req.damages_claimed,
                         ensemble |-> p.model.version,
                         scaler |-> p.feature_engine.scaler.version]]

(***************************************************************************)
(* Models directory.  A file name is <<stem, tag>>: tag 0 is the suffix    *)
(* "latest", tag t > 0 the timestamp of the t-th save.  files maps the     *)
(* names present to their contents.                                        *)
(***************************************************************************)
ModelFile(tag) == <<"settlement_model", tag>>
ScalerFile(tag) == <<"feature_scaler", tag>>
MetadataFile(tag) == <<"model_metadata", tag>>

\* the two paths the endpoint's startup looks for
model_path == <<"settlement_model", 0>>
scaler_path == <<"feature_scaler", 0>>

\* os.path.exists
Exists(fs, path) == path \in DOMAIN fs

\* a file that joblib cannot load
Corrupt == [type |-> "corrupt"]

\* fs with path written
WriteFile(fs, path, content) ==
    [q \in DOMAIN fs \cup {path} |-> IF q = path THEN content ELSE fs[q]]

\* save_model at timestamp ts: model, scaler with the feature list, metadata
SaveModelFiles(fs, p, ts) ==
    LET f1 == WriteFile(fs, ModelFile(ts), [type |-> "model", model |-> p.model])
        f2 == WriteFile(f1, ScalerFile(ts),
                        [type |-> "scaler",
                         scaler |-> p.feature_engine.scaler,
                         feature_columns |-> p.feature_engine.feature_columns])
    IN WriteFile(f2, MetadataFile(ts),
                 [type |-> "metadata",
                  timestamp |-> ts,
                  training_stats |-> p.training_stats,
                  feature_columns |-> p.feature_engine.feature_columns])

\* SettlementPredictor.load_model: [raised, predictor].  The model is
\* assigned before the scaler is read; nothing compares the stored feature
\* list, the model and the scaler with one another.
LoadModel(p, fs, mpath, spath) ==
    IF ~Exists(fs, mpath) \/ fs[mpath].type # "model"
    THEN [raised |-> TRUE, predictor |-> p]
    ELSE LET p1 == [p EXCEPT !.model = fs[mpath].model]
         IN IF ~Exists(fs, spath) \/ fs[spath].type # "scaler"
            THEN [raised |-> TRUE, predictor |-> p1]
            ELSE [raised |-> FALSE,
                  predictor |->
                      [p1 EXCEPT !.feature_engine =
                          [scaler |-> fs[spath].scaler,
                           feature_columns |-> fs[spath].feature_columns]]]

(***************************************************************************)
(* State.                                                                  *)
(***************************************************************************)
VARIABLES
    trainer,      \* the training process's SettlementPredictor
    files,        \* the models directory
    saves,        \* save_model calls so far (the last timestamp)
    started,      \* the endpoint process is up (its startup hook has run)
    predictor,    \* predict_api's global predictor
    hashSeed,     \* the endpoint process's string-hash salt
    bootLog,      \* what the startup hook logged
    request,      \* the last request handled
    response,     \* its response
    calls,        \* predict_settlement_range calls made for it: the rows built
    cleaner,      \* a SettlementDataCleaner: [data, cleaned_data, stats]
    cleanCall,    \* the last cleaner call and its outcome
    output,       \* the file save_cleaned_data wrote
    tpredictor,   \* a SettlementPredictor with its forest seen tree by tree
    tcall,        \* the last call on it and its outcome
    answers,      \* per process (hash salt): its last prediction with it
    retry         \* AffiliationDetector.call_api: the call in progress

apiVars == <<trainer, files, saves, started, predictor, hashSeed, bootLog,
             request, response, calls>>
cleanerVars == <<cleaner, cleanCall, output>>
treeVars == <<tpredictor, tcall, answers>>
vars == <<trainer, files, saves, started, predictor, hashSeed, bootLog,
          request, response, calls, cleaner, cleanCall, output,
          tpredictor, tcall, answers, retry>>

(***************************************************************************)
(* Requests.                                                               *)
(***************************************************************************)
FraudTypes == {"healthcare", "Healthcare", "bogus"}
Industries == {"pharmaceutical", "bogus"}
Damages == {0, 500000, Inf}
Years == {2009, 2024}
HashSeeds == {0, 1}

PredictionRequests ==
    [fraud_type : FraudTypes, damages_claimed : Damages, industry : Industries,
     jurisdiction : {"Southern District of New York"},
     whistleblower_present : {TRUE}, settlement_year : Years]

\* a request that passes every check
BaseRequest ==
    [fraud_type |-> "healthcare", damages_claimed |-> 500000,
     industry |-> "pharmaceutical",
     jurisdiction |-> "Southern District of New York",
     whistleblower_present |-> TRUE, settlement_year |-> 2024]

\* the requests sent while the trainer and the deployment are followed
LifecycleRequests ==
    {BaseRequest,
     [BaseRequest EXCEPT !.fraud_type = "bogus"],
     [BaseRequest EXCEPT !.damages_claimed = 0]}

\* the requests sent to the endpoint: those that depart from the base
\* request in at most one field, and one with both categories unknown
Requests ==
    {r \in PredictionRequests :
        Cardinality({f \in DOMAIN r : r[f] # BaseRequest[f]}) <= 1}
    \cup {[BaseRequest EXCEPT !.fraud_type = "bogus", !.industry = "bogus"]}

\* n items, all base requests but the one at pos
MkBatch(n, pos, item) == [i \in 1..n |-> IF i = pos THEN item ELSE BaseRequest]

\* short batches with the odd item first or second, and batches at and
\* above the size limit with the odd item as item #50
Batches ==
    {MkBatch(n, pos, item) : n \in 0..2, pos \in 1..2, item \in Requests}
    \cup {MkBatch(n, 50, item) :
            n \in {MaxBatchSize, MaxBatchSize + 1}, item \in Requests}

\* the PredictionRequest schema: damages_claimed gt 0, settlement_year in
\* [2010, 2030]
SchemaValid(req) ==
    /\ req.damages_claimed > 0
    /\ req.settlement_year >= MinSettlementYear
    /\ req.settlement_year <= MaxSettlementYear

(***************************************************************************)
(* Responses: [code, detail, body].                                        *)
(***************************************************************************)
NoDetail == [msg |-> "", values |-> <<>>]

Ok(body) == [code |-> 200, detail |-> NoDetail, body |-> body]

HTTPException(code, msg, values) ==
    [code |-> code, detail |-> [msg |-> msg, values |-> values], body |-> <<>>]

\* the framework's answer to a body that fails the schema
Unprocessable == HTTPException(422, "validation error", <<>>)

\* the framework's answer to an exception no handler catches
InternalServerError == HTTPException(500, "Internal Server Error", <<>>)

\* the guard the request handlers share
ModelNotLoaded(p) == p = None \/ ~HasAttr(p, "model")

(***************************************************************************)
(* Request handlers, as functions of the endpoint's state.  Each yields    *)
(* [response, predictor, calls].                                           *)
(***************************************************************************)
FraudTypeAccepted(fraud_type) == InList(Lower(fraud_type), valid_fraud_types)

\* the industry check left out (an unknown industry goes on to the predictor)
IndustryAcceptedSkipped(industry) == TRUE

IndustryAccepted(industry) == InList(Lower(industry), valid_industries)

\* POST /predict without the `except HTTPException: raise` clause: the
\* handler's own 400 is caught by `except Exception` and turned into a 500
PredictHandlerCatchAll(p, seed, req) ==
    IF ModelNotLoaded(p)
    THEN [response |->
              HTTPException(503, "Model not loaded. Please train the model first.", <<>>),
          predictor |-> p, calls |-> <<>>]
    ELSE IF ~FraudTypeAccepted(req.fraud_type) \/ ~IndustryAccepted(req.industry)
    THEN [response |-> HTTPException(500, "Prediction failed", <<>>),
          predictor |-> p, calls |-> <<>>]
    ELSE LET r == PredictSettlementRange(p, seed, req)
         IN IF r.raised
            THEN [response |-> HTTPException(500, "Prediction failed", <<>>),
                  predictor |-> r.predictor, calls |-> <<r.X>>]
            ELSE [response |-> Ok(r.result),
                  predictor |-> r.predictor, calls |-> <<r.X>>]

\* POST /predict
PredictHandler(p, seed, req) ==
    IF ModelNotLoaded(p)
    THEN [response |->
              HTTPException(503, "Model not loaded. Please train the model first.", <<>>),
          predictor |-> p, calls |-> <<>>]
    ELSE IF ~FraudTypeAccepted(req.fraud_type)
    THEN [response |->
              HTTPException(400, "Invalid fraud_type. Must be one of", valid_fraud_types),
          predictor |-> p, calls |-> <<>>]
    ELSE IF ~IndustryAccepted(req.industry)
    THEN [response |->
              HTTPException(400, "Invalid industry. Must be one of", valid_industries),
          predictor |-> p, calls |-> <<>>]
    ELSE LET r == PredictSettlementRange(p, seed, req)
         IN IF r.raised
            THEN [response |-> HTTPException(500, "Prediction failed", <<>>),
                  predictor |-> r.predictor, calls |-> <<r.X>>]
            ELSE [response |-> Ok(r.result),
                  predictor |-> r.predictor, calls |-> <<r.X>>]

\* the size check off by one
BatchTooLargeOffByOne(reqs) == Len(reqs) >= MaxBatchSize

\* the size check of POST /batch-predict
BatchTooLarge(reqs) == Len(reqs) > MaxBatchSize

\* the loop with the try around it instead of inside it: the first item
\* that raises is recorded as failed and ends the loop
BatchLoopAborting(p, seed, reqs) ==
    LET n == Len(reqs)
        before(i) ==
            IF i = 1 THEN p
            ELSE PredictSettlementRange(p, seed, reqs[1]).predictor
        call(i) == PredictSettlementRange(before(i), seed, reqs[i])
        raising == {i \in 1..n : call(i).raised}
        m == IF raising = {} THEN n
             ELSE CHOOSE i \in raising : \A j \in raising : i <= j
        entry(r, req) ==
            [input |-> req, status |-> IF r.raised THEN "failed" ELSE "success",
             error |-> r.error, prediction |-> r.result]
    IN [results |-> [i \in 1..m |-> entry(call(i), reqs[i])] \o <<>>,
        predictor |-> before(m + 1),
        calls |-> [i \in 1..m |-> call(i).X] \o <<>>]

\* the loop of POST /batch-predict: [results, predictor, calls].  A call
\* leaves one thing behind in the predictor, the feature list that
\* create_features stores, and stores the same list every time: item 1
\* finds the predictor as the handler found it, every later item finds it
\* as the first call left it.
BatchLoop(p, seed, reqs) ==
    LET n == Len(reqs)
        before(i) ==
            IF i = 1 THEN p
            ELSE PredictSettlementRange(p, seed, reqs[1]).predictor
        call(i) == PredictSettlementRange(before(i), seed, reqs[i])
        entry(r, req) ==
            IF r.raised
            THEN [input |-> req, status |-> "failed",
                  error |-> r.error, prediction |-> r.result]
            ELSE [input |-> req, status |-> "success",
                  error |-> "", prediction |-> r.result]
    IN [results |-> [i \in 1..n |-> entry(call(i), reqs[i])] \o <<>>,
        predictor |-> before(n + 1),
        calls |-> [i \in 1..n |-> call(i).X] \o <<>>]

\* number of results with the given status
CountStatus(results, st) ==
    LET Has(e) == e.status = st
    IN Len(SelectSeq(results, Has))

\* POST /batch-predict
BatchHandler(p, seed, reqs) ==
    IF ModelNotLoaded(p)
    THEN [response |-> HTTPException(503, "Model not loaded", <<>>),
          predictor |-> p, calls |-> <<>>]
    ELSE IF BatchTooLarge(reqs)
    THEN [response |->
              HTTPException(400, "Batch size limited to 100 predictions", <<>>),
          predictor |-> p, calls |-> <<>>]
    ELSE LET out == BatchLoop(p, seed, reqs)
         IN [response |->
                 Ok([total |-> Len(reqs),
                     successful |-> CountStatus(out.results, "success"),
                     failed |-> CountStatus(out.results, "failed"),
                     results |-> out.results]),
             predictor |-> out.predictor, calls |-> out.calls]

\* GET /model/info.  get_feature_importance needs a fitted forest and as
\* many feature names as the forest has importances.
ModelInfoHandler(p) ==
    IF ModelNotLoaded(p)
    THEN HTTPException(503, "Model not loaded", <<>>)
    ELSE IF ~p.model.fitted
            \/ Len(p.feature_engine.feature_columns) # Len(FeatureColumns)
    THEN HTTPException(500, "Failed to retrieve model info", <<>>)
    ELSE Ok([model_type |-> "RandomForestRegressor",
             n_estimators |-> NEstimators,
             max_depth |-> MaxDepth,
             training_stats |-> p.training_stats,
             feature_count |-> Len(p.feature_engine.feature_columns)])

\* GET /: the responses it can give.  The status line takes the truth value
\* of predictor.model, which for an ensemble is the length of its fitted
\* estimator list: on an unfitted forest that lookup fails or, where the
\* object has a plain truth value, yields true.
HealthResponses(p) ==
    IF p = None
    THEN {Ok([status |-> "model_not_loaded", model_loaded |-> FALSE])}
    ELSE IF p.model.fitted
    THEN {Ok([status |-> "healthy", model_loaded |-> HasAttr(p, "model")])}
    ELSE {InternalServerError,
          Ok([status |-> "healthy", model_loaded |-> HasAttr(p, "model")])}

(***************************************************************************)
(* Initial state: nothing trained or saved, the endpoint not started, a    *)
(* fresh cleaner.                                                          *)
(***************************************************************************)
NoRequest == [kind |-> "none", body |-> <<>>]
NoResponse == [code |-> 0, detail |-> NoDetail, body |-> <<>>]

\* SettlementDataCleaner.__init__
NewCleaner == [data |-> None, cleaned_data |-> None, stats |-> <<>>]

\* the cleaner call made last: its input, whether it raised, and the
\* cleaner's cleaned_data as the call found it
NoCleanCall == [op |-> "none", raised |-> FALSE, input |-> <<>>, prior |-> None]

\* a RandomForestRegressor seen tree by tree: estimators_ exists once fitted
NewTreeModel == [fitted |-> FALSE, estimators_ |-> <<>>]

\* SettlementPredictor.__init__, the forest seen tree by tree
NewTreePredictor ==
    [model |-> NewTreeModel,
     feature_engine |-> NewFeatureEngine,
     training_stats |-> 0]

NoMatrix == [columns |-> <<>>, rows |-> <<>>]

\* a call on the tree-level predictor: its input, whether it raised, the
\* matrix it built or was given, the per-tree predictions, its result, and
\* the predictor as the call found it
TreeCall(op, raised, error, input, X, trees, result, prior) ==
    [op |-> op, raised |-> raised, error |-> error, input |-> input,
     X |-> X, tree_predictions |-> trees, result |-> result, prior |-> prior]

NoTreeCall ==
    TreeCall("none", FALSE, "", <<>>, NoMatrix, <<>>, None, NewTreePredictor)

NoAnswers == [seed \in HashSeeds |-> None]

\* call_api: where the call is ("idle", "loop", "returned", "raised"), its
\* max_retries, the loop variable attempt, the outcomes of the requests
\* posted so far, and what it returned or raised
NoCallApi ==
    [pc |-> "idle", max_retries |-> 0, attempt |-> 0, posts |-> <<>>,
     result |-> ""]

Init ==
    /\ trainer = NewPredictor
    /\ files = <<>>
    /\ saves = 0
    /\ started = FALSE
    /\ predictor = None
    /\ hashSeed = 0
    /\ bootLog = ""
    /\ request = NoRequest
    /\ response = NoResponse
    /\ calls = <<>>
    /\ cleaner = NewCleaner
    /\ cleanCall = NoCleanCall
    /\ output = None
    /\ tpredictor = NewTreePredictor
    /\ tcall = NoTreeCall
    /\ answers = NoAnswers
    /\ retry = NoCallApi

(***************************************************************************)
(* Trainer process and models directory.  The endpoint reads the directory *)
(* in its startup hook and never again, so what the trainer and the        *)
(* deployment do while it is up reaches it at its next start: the model    *)
(* lets them act while it is down.                                         *)
(***************************************************************************)
\* the predictor after training run v
TrainedPredictor(v) ==
    [model |-> [fitted |-> TRUE, version |-> v],
     feature_engine |->
         [scaler |-> [fitted |-> TRUE, version |-> v],
          feature_columns |-> FeatureColumns],
     training_stats |-> v]

\* main(): a new predictor, prepare_training_data, train, cross_validate and
\* evaluate; run v leaves a forest and a scaler fitted by run v
Train ==
    /\ ~started
    /\ trainer.model.version < MaxTrain
    /\ trainer' = TrainedPredictor(trainer.model.version + 1)
    /\ UNCHANGED <<files, saves, started, predictor, hashSeed, bootLog,
                   request, response, calls>>
    /\ UNCHANGED cleanerVars
    /\ UNCHANGED treeVars
    /\ UNCHANGED retry

\* SettlementPredictor.save_model
SaveModel ==
    /\ ~started
    /\ saves < MaxSaves
    /\ saves' = saves + 1
    /\ files' = SaveModelFiles(files, trainer, saves + 1)
    /\ UNCHANGED <<trainer, started, predictor, hashSeed, bootLog,
                   request, response, calls>>
    /\ UNCHANGED cleanerVars
    /\ UNCHANGED treeVars
    /\ UNCHANGED retry

\* The deployment step the endpoint's paths expect: a saved model or scaler
\* file is copied to its "latest" name; the copy may be cut short.
Deploy ==
    /\ ~started
    /\ \E stem \in {"settlement_model", "feature_scaler"}, ts \in 1..MaxSaves,
          whole \in BOOLEAN :
          /\ Exists(files, <<stem, ts>>)
          /\ files' = WriteFile(files, <<stem, 0>>,
                                IF whole THEN files[<<stem, ts>>] ELSE Corrupt)
    /\ UNCHANGED <<trainer, saves, started, predictor, hashSeed, bootLog,
                   request, response, calls>>
    /\ UNCHANGED cleanerVars
    /\ UNCHANGED treeVars
    /\ UNCHANGED retry

(***************************************************************************)
(* Serving endpoint.                                                       *)
(***************************************************************************)
\* the startup hook load_model: [predictor, log]
StartupLoad(fs) ==
    LET p == NewPredictor
    IN IF Exists(fs, model_path) /\ Exists(fs, scaler_path)
       THEN LET r == LoadModel(p, fs, model_path, scaler_path)
            IN IF r.raised
               THEN [predictor |-> None, log |-> "Failed to load model"]
               ELSE [predictor |-> r.predictor, log |-> "Model loaded successfully"]
       ELSE [predictor |-> p, log |-> "No saved model found"]

Startup ==
    /\ ~started
    /\ started' = TRUE
    /\ \E seed \in HashSeeds : hashSeed' = seed
    /\ LET r == StartupLoad(files)
       IN /\ predictor' = r.predictor
          /\ bootLog' = r.log
    /\ UNCHANGED <<trainer, files, saves, request, response, calls>>
    /\ UNCHANGED cleanerVars
    /\ UNCHANGED treeVars
    /\ UNCHANGED retry

\* the process ends; a new one starts with the module's initial globals
Restart ==
    /\ started
    /\ started' = FALSE
    /\ predictor' = None
    /\ hashSeed' = 0
    /\ bootLog' = ""
    /\ request' = NoRequest
    /\ response' = NoResponse
    /\ calls' = <<>>
    /\ UNCHANGED <<trainer, files, saves>>
    /\ UNCHANGED cleanerVars
    /\ UNCHANGED treeVars
    /\ UNCHANGED retry

Health ==
    /\ started
    /\ request' = [kind |-> "health", body |-> <<>>]
    /\ \E r \in HealthResponses(predictor) : response' = r
    /\ calls' = <<>>
    /\ UNCHANGED <<trainer, files, saves, started, predictor, hashSeed, bootLog>>
    /\ UNCHANGED cleanerVars
    /\ UNCHANGED treeVars
    /\ UNCHANGED retry

PredictFrom(reqs) ==
    /\ started
    /\ \E req \in reqs :
          /\ request' = [kind |-> "predict", body |-> req]
          /\ IF SchemaValid(req)
             THEN \E h \in {PredictHandler(predictor, hashSeed, req)} :
                     /\ response' = h.response
                     /\ predictor' = h.predictor
                     /\ calls' = h.calls
             ELSE /\ response' = Unprocessable
                  /\ predictor' = predictor
                  /\ calls' = <<>>
    /\ UNCHANGED <<trainer, files, saves, started, hashSeed, bootLog>>
    /\ UNCHANGED cleanerVars
    /\ UNCHANGED treeVars
    /\ UNCHANGED retry

BatchPredict ==
    /\ started
    /\ \E reqs \in Batches :
          /\ request' = [kind |-> "batch", body |-> reqs]
          /\ IF \A i \in DOMAIN reqs : SchemaValid(reqs[i])
             THEN \E h \in {BatchHandler(predictor, hashSeed, reqs)} :
                     /\ response' = h.response
                     /\ predictor' = h.predictor
                     /\ calls' = h.calls
             ELSE /\ response' = Unprocessable
                  /\ predictor' = predictor
                  /\ calls' = <<>>
    /\ UNCHANGED <<trainer, files, saves, started, hashSeed, bootLog>>
    /\ UNCHANGED cleanerVars
    /\ UNCHANGED treeVars
    /\ UNCHANGED retry

ModelInfo ==
    /\ started
    /\ request' = [kind |-> "model_info", body |-> <<>>]
    /\ response' = ModelInfoHandler(predictor)
    /\ calls' = <<>>
    /\ UNCHANGED <<trainer, files, saves, started, predictor, hashSeed, bootLog>>
    /\ UNCHANGED cleanerVars
    /\ UNCHANGED treeVars
    /\ UNCHANGED retry

\* POST /predict, over all requests and over the lifecycle's few
Predict == PredictFrom(Requests)

PredictOne == PredictFrom(LifecycleRequests)

Next ==
    \/ Train
    \/ SaveModel
    \/ Deploy
    \/ Startup
    \/ Restart
    \/ Health
    \/ PredictOne
    \/ ModelInfo

Spec == Init /\ [][Next]_vars

(***************************************************************************)
(* The endpoint alone, over a models directory as a deployment left it.    *)
(***************************************************************************)
\* the directory after save_model of predictor p and the copy of both
\* files to their "latest" names
DeployedDir(p) ==
    LET fs == SaveModelFiles(<<>>, p, 1)
        f1 == WriteFile(fs, model_path, fs[ModelFile(1)])
    IN WriteFile(f1, scaler_path, fs[ScalerFile(1)])

\* nothing saved; run 1 saved and deployed; an untrained predictor saved
\* and deployed
Directories == {<<>>, DeployedDir(TrainedPredictor(1)), DeployedDir(NewPredictor)}

InitApi ==
    /\ trainer = NewPredictor
    /\ files \in Directories
    /\ saves = 0
    /\ started = FALSE
    /\ predictor = None
    /\ hashSeed = 0
    /\ bootLog = ""
    /\ request = NoRequest
    /\ response = NoResponse
    /\ calls = <<>>
    /\ cleaner = NewCleaner
    /\ cleanCall = NoCleanCall
    /\ output = None
    /\ tpredictor = NewTreePredictor
    /\ tcall = NoTreeCall
    /\ answers = NoAnswers
    /\ retry = NoCallApi

NextApi ==
    \/ Startup
    \/ Restart
    \/ Health
    \/ Predict
    \/ BatchPredict
    \/ ModelInfo

SpecApi == InitApi /\ [][NextApi]_vars

(***************************************************************************)
(* Settlement data cleaner (clean_data.py).  A table is a sequence of rows, *)
(* a row a record of its columns.  Amounts are whole dollars and multiples *)
(* of 100, so that a CPI multiplier of two decimals is applied exactly.    *)
(***************************************************************************)
\* the least number of rows validate_data accepts
MinRecords == 20
\* the outlier limits of clean_amounts
MinAmount == 10000
MaxAmount == 1000000000

\* cells: a missing value, a number, a text that is no number, NaN / NaT
Null == [null |-> TRUE]
Num(v) == [num |-> v]
Text(t) == [text |-> t]
Bool(b) == [bool |-> b]
NaN == [nan |-> TRUE]
IsNum(c) == DOMAIN c = {"num"}

\* pd.to_numeric(errors='coerce') of a cell that is not missing
ToNumeric(c) == IF IsNum(c) THEN c ELSE NaN

\* a comparison with NaN is False
IsOutlier(c) == IsNum(c) /\ (c.num > MaxAmount \/ c.num < MinAmount)

\* pd.to_datetime(errors='coerce') followed by .dt.year: the year of a
\* date, NaN for a missing or unparseable one
ToDatetimeYear(d) ==
    CASE d = Text("2009-06-30") -> Num(2009)
      [] d = Text("2019-03-05") -> Num(2019)
      [] d = Text("2024-01-15") -> Num(2024)
      [] d = Text("2026-02-01") -> Num(2026)
      [] OTHER -> NaN

\* CPI multipliers to 2024, times 100
cpi_multipliers ==
    [y \in 2010..2024 |->
        CASE y = 2024 -> 100 [] y = 2023 -> 104 [] y = 2022 -> 112
          [] y = 2021 -> 117 [] y = 2020 -> 121 [] y = 2019 -> 124
          [] y = 2018 -> 128 [] y = 2017 -> 131 [] y = 2016 -> 134
          [] y = 2015 -> 134 [] y = 2014 -> 137 [] y = 2013 -> 140
          [] y = 2012 -> 143 [] y = 2011 -> 147 [] y = 2010 -> 151]

\* the multiplier of a year outside the table, times 100
DefaultMultiplier == 150

\* _adjust_for_inflation: amount * multiplier, NaN for a NaN amount
AdjustForInflation(amount, year) ==
    IF ~IsNum(amount) THEN NaN
    ELSE Num((amount.num \div 100)
             * DictGet(cpi_multipliers, year, DefaultMultiplier))

\* clean_amounts: [data, stats]
CleanAmounts(data) ==
    LET HasAmount(r) == r.amount # Null
        Coerce(r) == [r EXCEPT !.amount = ToNumeric(@)]
        Kept(r) == ~IsOutlier(r.amount)
        present == SelectSeq(data, HasAmount)
        numeric == [i \in 1..Len(present) |-> Coerce(present[i])] \o <<>>
        kept == SelectSeq(numeric, Kept)
        NotNaN(r) == IsNum(r.amount)
        sample == SelectSeq(kept, NotNaN)
        values == {sample[i].amount.num : i \in 1..Len(sample)}
    IN [data |-> kept,
        stats |->
            [column |-> "amount",
             count |-> Len(sample),
             min |-> IF values = {} THEN NaN
                     ELSE Num(CHOOSE v \in values : \A w \in values : v <= w),
             max |-> IF values = {} THEN NaN
                     ELSE Num(CHOOSE v \in values : \A w \in values : v >= w)]]

\* data[column] = value, for the columns of cols: a column the row has
\* already is overwritten
Assign(r, cols) == cols @@ r

\* clean_dates writing the adjusted amount over the amount column as well
CleanDatesInPlace(data) ==
    LET Valid(r) == ToDatetimeYear(r.date) # NaN
        Dated(r) ==
            Assign(r,
                [settlement_date |-> r.date,
                 settlement_year |-> ToDatetimeYear(r.date),
                 amount |->
                     AdjustForInflation(r.amount, ToDatetimeYear(r.date).num),
                 amount_2024 |->
                     AdjustForInflation(r.amount, ToDatetimeYear(r.date).num)])
        valid == SelectSeq(data, Valid)
    IN [i \in 1..Len(valid) |-> Dated(valid[i])] \o <<>>

\* clean_dates: rows with a parseable date, with settlement_date,
\* settlement_year and amount_2024.  On a table left empty the assignment
\* of the empty apply() result raises or adds no value, by the version of
\* pandas; the table is empty either way and clean_all raises either way.
CleanDates(data) ==
    LET Valid(r) == ToDatetimeYear(r.date) # NaN
        Dated(r) ==
            Assign(r,
                [settlement_date |-> r.date,
                 settlement_year |-> ToDatetimeYear(r.date),
                 amount_2024 |->
                     AdjustForInflation(r.amount, ToDatetimeYear(r.date).num)])
        valid == SelectSeq(data, Valid)
    IN [i \in 1..Len(valid) |-> Dated(valid[i])] \o <<>>

\* fillna(value)
FillNa(c, value) == IF c = Null THEN value ELSE c

\* Series.map(mapping): the code of a known category, NaN otherwise
MapCode(mapping, c) ==
    IF c.text \in DOMAIN mapping THEN Num(mapping[c.text]) ELSE NaN

\* jurisdictions in the order in which strings sort
JurisdictionOrder == <<"D. Mass.", "E.D. Pa.", "S.D.N.Y.", "Unknown">>
SortsBefore(a, b) ==
    \E i, j \in DOMAIN JurisdictionOrder :
        /\ JurisdictionOrder[i] = a
        /\ JurisdictionOrder[j] = b
        /\ i < j

\* pd.Categorical(column).codes: the rank of the value among the distinct
\* values of the column
CategoricalCode(column, value) ==
    Cardinality({c \in column : SortsBefore(c, value)})

\* astype(int) of a cell that is a boolean or a number already
AsTypeInt(c) == IF IsNum(c) THEN c ELSE Num(IF c.bool THEN 1 ELSE 0)

\* encode_categories
EncodeCategories(data) ==
    LET column == {FillNa(data[i].jurisdiction, Text("Unknown")).text :
                       i \in 1..Len(data)}
        Encoded(r) ==
            Assign(
               [r EXCEPT !.fraud_type = FillNa(@, Text("other")),
                         !.industry = FillNa(@, Text("other")),
                         !.jurisdiction = FillNa(@, Text("Unknown")),
                         !.whistleblower = AsTypeInt(FillNa(@, Bool(FALSE)))],
               [fraud_type_code |->
                    MapCode(fraud_type_mapping,
                            FillNa(r.fraud_type, Text("other"))),
                industry_code |->
                    MapCode(industry_mapping,
                            FillNa(r.industry, Text("other"))),
                jurisdiction_code |->
                    Num(CategoricalCode(column,
                            FillNa(r.jurisdiction, Text("Unknown")).text))])
    IN [i \in 1..Len(data) |-> Encoded(data[i])] \o <<>>

\* pd.cut(bins=[0, 1e6, 1e7, inf], labels=[0, 1, 2]): intervals closed on
\* the right; NaN for a value in none of them
Cut(amount_2024) ==
    IF ~IsNum(amount_2024) \/ amount_2024.num <= 0 THEN NaN
    ELSE IF amount_2024.num <= SmallBelow THEN Num(0)
    ELSE IF amount_2024.num <= MediumBelow THEN Num(1)
    ELSE Num(2)

\* create_features of the cleaner: [raised, data].  astype(int) raises on a
\* NaN size, after log_amount was assigned.
CleanerCreateFeatures(data) ==
    LET Logged(r) == Assign(r, [log_amount |-> Log1p(r.amount_2024)])
        Featured(r) ==
            Assign(Logged(r),
                [defendant_size |-> Cut(r.amount_2024),
                 fraud_severity |->
                     [log1p |-> r.amount_2024,
                      weight |->
                          DictGet(severity_weights, r.fraud_type.text, 10)]])
    IN IF \E i \in 1..Len(data) : Cut(data[i].amount_2024) = NaN
       THEN [raised |-> TRUE,
             data |-> [i \in 1..Len(data) |-> Logged(data[i])] \o <<>>]
       ELSE [raised |-> FALSE,
             data |-> [i \in 1..Len(data) |-> Featured(data[i])] \o <<>>]

\* drop_duplicates(subset=[defendant, amount, settlement_year]): the first
\* row of every key is kept
DuplicateKey(r) == <<r.defendant, r.amount, r.settlement_year>>

\* drop_duplicates with keep='last'
RemoveDuplicatesKeepLast(data) ==
    LET last == {i \in 1..Len(data) :
                    \A j \in (i + 1)..Len(data) :
                        DuplicateKey(data[j]) # DuplicateKey(data[i])}
        Index(k) == CHOOSE i \in last :
                        Cardinality({j \in last : j <= i}) = k
    IN [k \in 1..Cardinality(last) |-> data[Index(k)]] \o <<>>

RemoveDuplicates(data) ==
    LET first == {i \in 1..Len(data) :
                     \A j \in 1..(i - 1) :
                         DuplicateKey(data[j]) # DuplicateKey(data[i])}
        Index(k) == CHOOSE i \in first :
                        Cardinality({j \in first : j <= i}) = k
    IN [k \in 1..Cardinality(first) |-> data[Index(k)]] \o <<>>

\* the columns validate_data requires
required_cols ==
    {"amount_2024", "fraud_type_code", "industry_code", "jurisdiction_code",
     "whistleblower"}

\* validate_data with the row count compared to one less
ValidateDataOffByOne(data) ==
    (IF Len(data) < MinRecords - 1 THEN <<"Insufficient data">> ELSE <<>>)
    \o (IF \E i \in 1..Len(data) : ~(required_cols \subseteq DOMAIN data[i])
        THEN <<"Missing required columns">> ELSE <<>>)
    \o (IF \E i \in 1..Len(data) :
              IsNum(data[i].amount_2024) /\ data[i].amount_2024.num <= 0
        THEN <<"Negative or zero amounts found">> ELSE <<>>)

\* validate_data: the issues found (valid iff none)
ValidateData(data) ==
    (IF Len(data) < MinRecords THEN <<"Insufficient data">> ELSE <<>>)
    \o (IF \E i \in 1..Len(data) : ~(required_cols \subseteq DOMAIN data[i])
        THEN <<"Missing required columns">> ELSE <<>>)
    \o (IF \E i \in 1..Len(data) :
              IsNum(data[i].amount_2024) /\ data[i].amount_2024.num <= 0
        THEN <<"Negative or zero amounts found">> ELSE <<>>)

\* filepath.endswith('.csv') or filepath.endswith('.json')
Loadable(filepath) ==
    filepath \in {"data/fca_settlements_sample.csv",
                  "data/fca_settlements_clean.csv",
                  "data/fca_settlements.json"}

\* clean_all on cleaner c: [raised, cleaner, result].  Every step replaces
\* self.data; cleaned_data is assigned after validation only.
CleanAllOp(c, src) ==
    IF ~Loadable(src.filepath)
    THEN [raised |-> TRUE, cleaner |-> c, result |-> None]
    ELSE
      LET amounts == CleanAmounts(src.table)
          encoded == EncodeCategories(CleanDates(amounts.data))
          featured == CleanerCreateFeatures(encoded)
          deduped == RemoveDuplicates(featured.data)
          stats == [amount |-> amounts.stats]
      IN IF featured.raised
         THEN [raised |-> TRUE,
               cleaner |-> [c EXCEPT !.data = featured.data, !.stats = stats],
               result |-> None]
         ELSE IF ValidateData(deduped) # <<>>
         THEN [raised |-> TRUE,
               cleaner |-> [c EXCEPT !.data = deduped, !.stats = stats],
               result |-> None]
         ELSE [raised |-> FALSE,
               cleaner |-> [data |-> deduped, cleaned_data |-> deduped,
                            stats |-> stats],
               result |-> deduped]

\* Raw tables: row i of n, all rows alike but for the defendant, and one
\* row changed.
BaseRow(i) ==
    [defendant |-> [defendant |-> i],
     amount |-> Num(250000),
     date |-> Text("2019-03-05"),
     fraud_type |-> Text("healthcare"),
     industry |-> Text("pharmaceutical"),
     jurisdiction |-> Text("S.D.N.Y."),
     whistleblower |-> Bool(TRUE)]

\* changes of a row that make cleaning drop it
Dropped ==
    {"null amount", "low outlier", "high outlier", "bad date", "duplicate"}
\* changes of a row that cleaning keeps
Retained ==
    {"none", "old year", "future year", "upper case", "no jurisdiction",
     "at small limit", "at medium limit"}

Changed(i, change) ==
    CASE change = "null amount" -> [BaseRow(i) EXCEPT !.amount = Null]
      [] change = "text amount" -> [BaseRow(i) EXCEPT !.amount = Text("unknown")]
      [] change = "low outlier" -> [BaseRow(i) EXCEPT !.amount = Num(MinAmount - 100)]
      [] change = "high outlier" -> [BaseRow(i) EXCEPT !.amount = Num(MaxAmount + 100)]
      [] change = "bad date" -> [BaseRow(i) EXCEPT !.date = Text("not a date")]
      [] change = "duplicate" ->
             [BaseRow(i - 1) EXCEPT !.whistleblower = Bool(FALSE)]
      [] change = "old year" -> [BaseRow(i) EXCEPT !.date = Text("2009-06-30")]
      [] change = "future year" -> [BaseRow(i) EXCEPT !.date = Text("2026-02-01")]
      [] change = "at small limit" ->
             [BaseRow(i) EXCEPT !.amount = Num(SmallBelow),
                                !.date = Text("2024-01-15")]
      [] change = "at medium limit" ->
             [BaseRow(i) EXCEPT !.amount = Num(MediumBelow),
                                !.date = Text("2024-01-15")]
      [] change = "no fraud type" -> [BaseRow(i) EXCEPT !.fraud_type = Null]
      [] change = "upper case" -> [BaseRow(i) EXCEPT !.fraud_type = Text("Healthcare")]
      [] change = "large" -> [BaseRow(i) EXCEPT !.amount = Num(20000000)]
      [] change = "no jurisdiction" -> [BaseRow(i) EXCEPT !.jurisdiction = Null]
      [] OTHER -> BaseRow(i)

MkTable(n, change) ==
    [i \in 1..n |-> IF i = 2 THEN Changed(i, change) ELSE BaseRow(i)] \o <<>>

Tables ==
    {MkTable(n, "none") : n \in {0, MinRecords - 1, MinRecords, MinRecords + 1}}
    \cup {MkTable(MinRecords, ch) : ch \in Dropped}
    \cup {MkTable(MinRecords + 1, ch) : ch \in {"bad date", "duplicate"}}
    \cup {MkTable(MinRecords, ch) : ch \in Retained}
    \cup {MkTable(MinRecords + 1, "text amount")}

Sources ==
    {[filepath |-> "data/fca_settlements_sample.csv", table |-> t] : t \in Tables}
    \cup {[filepath |-> "data/fca_settlements.txt",
           table |-> MkTable(MinRecords, "none")]}

\* to_csv followed by read_csv: a NaN cell is written as an empty field and
\* read as a missing value; text, numbers and the column names come back as
\* they were
ReadCsv(table) ==
    [i \in 1..Len(table) |->
        [col \in DOMAIN table[i] |->
            IF table[i][col] = NaN THEN Null ELSE table[i][col]]] \o <<>>

\* the files clean_all may be given: a raw table, or the file that
\* save_cleaned_data wrote
Readable ==
    Sources
    \cup (IF output = None THEN {}
          ELSE {[filepath |-> "data/fca_settlements_clean.csv",
                 table |-> ReadCsv(output)]})

\* cleaner.clean_all(filepath)
CleanAll ==
    /\ \E src \in Readable :
          \E r \in {CleanAllOp(cleaner, src)} :
              /\ cleaner' = r.cleaner
              /\ cleanCall' = [op |-> "clean_all", raised |-> r.raised,
                               input |-> src, prior |-> cleaner.cleaned_data]
    /\ UNCHANGED output
    /\ UNCHANGED apiVars
    /\ UNCHANGED treeVars
    /\ UNCHANGED retry

\* cleaner.save_cleaned_data(output_path)
SaveCleanedData ==
    /\ cleanCall' = [op |-> "save_cleaned_data",
                     raised |-> cleaner.cleaned_data = None,
                     input |-> <<>>, prior |-> cleaner.cleaned_data]
    /\ output' = IF cleaner.cleaned_data = None THEN output
                 ELSE cleaner.cleaned_data
    /\ UNCHANGED cleaner
    /\ UNCHANGED apiVars
    /\ UNCHANGED treeVars
    /\ UNCHANGED retry

\* value_counts().to_dict() of a text column
ValueCounts(data, column) ==
    [v \in {data[i][column].text : i \in 1..Len(data)} |->
        Cardinality({i \in 1..Len(data) : data[i][column].text = v})]

\* get_stats
GetStats(c) ==
    [total_records |->
         IF c.cleaned_data # None THEN Len(c.cleaned_data) ELSE 0,
     amount_stats |-> DictGet(c.stats, "amount", <<>>),
     fraud_type_distribution |->
         IF c.data # None THEN ValueCounts(c.data, "fraud_type") ELSE <<>>,
     industry_distribution |->
         IF c.data # None THEN ValueCounts(c.data, "industry") ELSE <<>>]

NextCleaner ==
    \/ CleanAll
    \/ SaveCleanedData

SpecCleaner == Init /\ [][NextCleaner]_vars

(***************************************************************************)
(* Feature engine, training path (feature_engineering.py), on tables as    *)
(* the cleaner leaves them.                                                *)
(***************************************************************************)
\* the most rows of a table given to the engine
MaxRows == 2
\* the most fits of a scaler that are followed
MaxFits == 2

\* arithmetic of columns: NaN where an operand is NaN
Times(a, b) == IF IsNum(a) /\ IsNum(b) THEN Num(a.num * b.num) ELSE NaN
Minus(a, k) == IF IsNum(a) THEN Num(a.num - k) ELSE NaN
Modulo(a, k) == IF IsNum(a) THEN Num(a.num % k) ELSE NaN

\* the base features create_features requires
required_features ==
    {"fraud_type_code", "industry_code", "jurisdiction_code", "whistleblower",
     "defendant_size", "log_amount", "settlement_year", "fraud_severity"}

HasColumns(data, columns) ==
    \A i \in 1..Len(data) : columns \subseteq DOMAIN data[i]

\* create_features of the engine on a table: [raised, data]; the caller
\* stores the feature list
EngineCreateFeatures(data) ==
    LET Derived(r) ==
            Assign(r,
                [industry_fraud_interaction |->
                     Times(r.industry_code, r.fraud_type_code),
                 years_since_2010 |-> Minus(r.settlement_year, 2010),
                 whistleblower_fraud_interaction |->
                     Times(r.whistleblower, r.fraud_type_code),
                 jurisdiction_risk |-> Modulo(r.jurisdiction_code, 3),
                 size_fraud_interaction |->
                     Times(r.defendant_size, r.fraud_type_code)])
    IN IF ~HasColumns(data, required_features)
       THEN [raised |-> TRUE, data |-> data]
       ELSE [raised |-> FALSE,
             data |-> [i \in 1..Len(data) |-> Derived(data[i])] \o <<>>]

\* prepare_training_data, the k-th fit of the scaler:
\* [raised, error, engine, X].  create_features runs only while the engine
\* has no feature list.
PrepareTrainingData(engine, data, k) ==
    LET fresh == engine.feature_columns = <<>>
        made == IF fresh THEN EngineCreateFeatures(data)
                ELSE [raised |-> FALSE, data |-> data]
        eng == IF fresh THEN [engine EXCEPT !.feature_columns = FeatureColumns]
               ELSE engine
        fitted == [eng EXCEPT !.scaler = [fitted |-> TRUE, version |-> k]]
    IN IF made.raised
       THEN [raised |-> TRUE, error |-> "ValueError", engine |-> engine,
             X |-> NoMatrix]
       ELSE IF ~HasColumns(made.data, Range(eng.feature_columns))
       THEN [raised |-> TRUE, error |-> "KeyError", engine |-> eng,
             X |-> NoMatrix]
       ELSE IF ~HasColumns(made.data, {"log_amount"}) \/ Len(made.data) = 0
       THEN [raised |-> TRUE, error |-> "ValueError", engine |-> eng,
             X |-> NoMatrix]
       ELSE [raised |-> FALSE, error |-> "", engine |-> fitted,
             X |-> Select(made.data, eng.feature_columns, fitted.scaler)]

\* transform_new_data: [raised, error, engine, X]
TransformNewData(engine, data) ==
    LET made == EngineCreateFeatures(data)
        eng == [engine EXCEPT !.feature_columns = FeatureColumns]
    IN IF made.raised
       THEN [raised |-> TRUE, error |-> "ValueError", engine |-> engine,
             X |-> NoMatrix]
       ELSE IF ~engine.scaler.fitted
       THEN [raised |-> TRUE, error |-> "NotFittedError", engine |-> eng,
             X |-> NoMatrix]
       ELSE IF Len(data) = 0
       THEN [raised |-> TRUE, error |-> "ValueError", engine |-> eng,
             X |-> NoMatrix]
       ELSE [raised |-> FALSE, error |-> "", engine |-> eng,
             X |-> Select(made.data, eng.feature_columns, engine.scaler)]

\* the cleaning steps of clean_all on a raw table, without the validation
Cleaned(table) ==
    RemoveDuplicates(
        CleanerCreateFeatures(
            EncodeCategories(CleanDates(CleanAmounts(table).data))).data)

\* tables given to the engine: cleaned tables of up to MaxRows rows, a
\* cleaned table that went through create_features already, and a raw table
EngineTables ==
    {Cleaned(MkTable(n, ch)) : n \in 0..MaxRows, ch \in {"none", "upper case"}}
    \cup {EngineCreateFeatures(Cleaned(MkTable(MaxRows, "none"))).data}
    \cup {MkTable(1, "none")}

(***************************************************************************)
(* Predictor, the forest seen tree by tree (train_model.py).  A fitted     *)
(* tree is a stump: one split on one feature, a prediction in log space on *)
(* either side.  Scaling is increasing in every column, so a stump's       *)
(* threshold is given on the unscaled value.                               *)
(***************************************************************************)
\* the most trees of a forest that are followed
MaxTrees == 3

Stump(feature, threshold, left, right) ==
    [feature |-> feature, threshold |-> threshold,
     left |-> left, right |-> right]

\* trees a fit may grow
Stumps ==
    {Stump("jurisdiction_code", 15, 1, 3), Stump("defendant_size", 0, 0, 2)}

\* forests a fit may grow: 1..MaxTrees trees
Ensembles ==
    UNION {[1..n -> Stumps] : n \in 1..MaxTrees}

\* tree.predict(X)[0]
TreePredict(tree, X) ==
    IF X.rows[1][tree.feature] <= tree.threshold THEN tree.left
    ELSE tree.right

\* the interpolation of np.percentile on the values as the trees gave them
Percentile4Unsorted(a, k) ==
    LET pos == (Len(a) - 1) * k
        i == pos \div 4
        r == pos % 4
    IN IF r = 0 THEN 4 * a[i + 1]
       ELSE 4 * a[i + 1] + r * (a[i + 2] - a[i + 1])

\* np.percentile(a, 25 * k) with linear interpolation, times 4: with
\* (n - 1) * k = 4 * i + r it is a[i] + (r / 4) * (a[i + 1] - a[i]) on the
\* sorted values, counted from 0
Percentile4(a, k) ==
    LET sorted == SortSeq(a, LAMBDA x, y : x < y)
        pos == (Len(a) - 1) * k
        i == pos \div 4
        r == pos % 4
    IN IF r = 0 THEN 4 * sorted[i + 1]
       ELSE 4 * sorted[i + 1] + r * (sorted[i + 2] - sorted[i + 1])

\* np.expm1 of a value given times 4: increasing, 0 at 0; 2^v - 1 stands
\* for e^(v / 4) - 1
Expm1(v4) == 2 ^ v4 - 1

SumOf(a) ==
    LET sum[i \in 0..Len(a)] == IF i = 0 THEN 0 ELSE sum[i - 1] + a[i]
    IN sum[Len(a)]

\* np.std(a) squared, as a fraction <<numerator, denominator>>
Variance(a) ==
    <<Len(a) * SumOf([i \in 1..Len(a) |-> a[i] * a[i]]) - SumOf(a) * SumOf(a),
      Len(a) * Len(a)>>

\* pred_std / 2 without the min
DeficitUnclamped(a) == <<Variance(a)[1], 4 * Variance(a)[2]>>

\* min(pred_std / 2, 0.5), squared, as a fraction: std / 2 < 0.5 iff the
\* variance is below 1
Deficit(a) ==
    IF Variance(a)[1] < Variance(a)[2]
    THEN <<Variance(a)[1], 4 * Variance(a)[2]>>
    ELSE <<1, 4>>

\* predict_settlement_range, tree by tree: [raised, error, predictor,
\* tree_predictions, result]; confidence is 1 - sqrt(deficit)
TreePredictSettlementRange(p, seed, req) ==
    LET inp == CreatePredictionInput(p.feature_engine, seed, req)
        p2 == [p EXCEPT !.feature_engine = inp.engine]
        trees == [i \in 1..Len(p.model.estimators_) |->
                     TreePredict(p.model.estimators_[i], inp.X)] \o <<>>
    IN IF inp.raised
       THEN [raised |-> TRUE, error |-> inp.error, predictor |-> p2,
             tree_predictions |-> <<>>, result |-> None]
       ELSE IF ~p.model.fitted
       THEN [raised |-> TRUE, error |-> "AttributeError", predictor |-> p2,
             tree_predictions |-> <<>>, result |-> None]
       ELSE [raised |-> FALSE, error |-> "", predictor |-> p2,
             tree_predictions |-> trees,
             result |->
                 [predicted_low |-> Expm1(Percentile4(trees, 1)),
                  predicted_mid |-> Expm1(Percentile4(trees, 2)),
                  predicted_high |-> Expm1(Percentile4(trees, 3)),
                  confidence |-> [one_minus_sqrt |-> Deficit(trees)],
                  input_damages |-> req.damages_claimed]]

\* cross_validate with the fit made on self.model itself
CrossValidateInPlace(p, X, cv) ==
    IF cv < 2 \/ cv > Len(X.rows)
    THEN [raised |-> TRUE, error |-> "ValueError", predictor |-> p,
          result |-> None]
    ELSE [raised |-> FALSE, error |-> "",
          predictor |->
              [p EXCEPT !.model =
                  [fitted |-> TRUE,
                   estimators_ |-> <<Stump("defendant_size", 0, 0, 2)>>]],
          result |-> [cv_rmse_scores |-> cv]]

\* cross_validate: cross_val_score fits clones of self.model, one per
\* fold, and needs a row per fold: [raised, error, predictor, result]
CrossValidate(p, X, cv) ==
    IF cv < 2 \/ cv > Len(X.rows)
    THEN [raised |-> TRUE, error |-> "ValueError", predictor |-> p,
          result |-> None]
    ELSE [raised |-> FALSE, error |-> "", predictor |-> p,
          result |-> [cv_rmse_scores |-> cv]]

\* requests made of the tree-level predictor
TreeRequests ==
    {BaseRequest,
     [BaseRequest EXCEPT !.damages_claimed = Inf],
     [BaseRequest EXCEPT !.jurisdiction = "Unknown"]}

\* main(): prepare_training_data on a cleaned table, then train; the fit
\* grows one of the forests
TrainTrees ==
    /\ tpredictor.feature_engine.scaler.version < MaxFits
    /\ \E data \in EngineTables, forest \in Ensembles :
          \E prep \in {PrepareTrainingData(tpredictor.feature_engine, data,
                           tpredictor.feature_engine.scaler.version + 1)} :
              /\ tpredictor' =
                     IF prep.raised
                     THEN [tpredictor EXCEPT !.feature_engine = prep.engine]
                     ELSE [tpredictor EXCEPT
                              !.feature_engine = prep.engine,
                              !.model = [fitted |-> TRUE,
                                         estimators_ |-> forest]]
              /\ tcall' = TreeCall("train", prep.raised, prep.error, data,
                                   prep.X, <<>>, None, tpredictor)
              /\ answers' = IF prep.raised THEN answers ELSE NoAnswers
    /\ UNCHANGED apiVars
    /\ UNCHANGED cleanerVars
    /\ UNCHANGED retry

\* feature_engine.prepare_training_data(data)
PrepareTraining ==
    /\ tpredictor.feature_engine.scaler.version < MaxFits
    /\ \E data \in EngineTables :
          \E prep \in {PrepareTrainingData(tpredictor.feature_engine, data,
                           tpredictor.feature_engine.scaler.version + 1)} :
              /\ tpredictor' = [tpredictor EXCEPT !.feature_engine = prep.engine]
              /\ tcall' = TreeCall("prepare_training_data", prep.raised,
                                   prep.error, data, prep.X, <<>>, None,
                                   tpredictor)
              /\ answers' = IF prep.raised THEN answers ELSE NoAnswers
    /\ UNCHANGED apiVars
    /\ UNCHANGED cleanerVars
    /\ UNCHANGED retry

\* feature_engine.transform_new_data(data)
TransformNew ==
    /\ \E data \in EngineTables :
          \E out \in {TransformNewData(tpredictor.feature_engine, data)} :
              /\ tpredictor' = [tpredictor EXCEPT !.feature_engine = out.engine]
              /\ tcall' = TreeCall("transform_new_data", out.raised, out.error,
                                   data, out.X, <<>>, None, tpredictor)
    /\ UNCHANGED answers
    /\ UNCHANGED apiVars
    /\ UNCHANGED cleanerVars
    /\ UNCHANGED retry

\* feature_engine.create_prediction_input(...), in a process of salt seed
CreateInput ==
    /\ \E seed \in HashSeeds, req \in TreeRequests :
          \E out \in {CreatePredictionInput(tpredictor.feature_engine,
                                            seed, req)} :
              /\ tpredictor' = [tpredictor EXCEPT !.feature_engine = out.engine]
              /\ tcall' = TreeCall("create_prediction_input", out.raised,
                                   out.error, req, out.X, <<>>, None,
                                   tpredictor)
    /\ UNCHANGED answers
    /\ UNCHANGED apiVars
    /\ UNCHANGED cleanerVars
    /\ UNCHANGED retry

\* predictor.cross_validate(X, y, cv) on the features of a cleaned table
CrossValidateTrees ==
    /\ \E data \in EngineTables, cv \in {2, 5} :
          /\ ~EngineCreateFeatures(data).raised
          /\ \E out \in {CrossValidate(tpredictor,
                             Select(EngineCreateFeatures(data).data,
                                    FeatureColumns,
                                    tpredictor.feature_engine.scaler),
                             cv)} :
                /\ tpredictor' = out.predictor
                /\ tcall' = TreeCall("cross_validate", out.raised, out.error,
                                     data, NoMatrix, <<>>, out.result,
                                     tpredictor)
    /\ UNCHANGED answers
    /\ UNCHANGED apiVars
    /\ UNCHANGED cleanerVars
    /\ UNCHANGED retry

\* predictor.predict_settlement_range(...) in the process of salt seed,
\* which holds the predictor as it is (as if loaded from one artifact)
PredictTrees ==
    /\ \E seed \in HashSeeds, req \in TreeRequests :
          \E out \in {TreePredictSettlementRange(tpredictor, seed, req)} :
              /\ tpredictor' = out.predictor
              /\ tcall' = TreeCall("predict_settlement_range", out.raised,
                                   out.error, req, NoMatrix,
                                   out.tree_predictions, out.result,
                                   tpredictor)
              /\ answers' =
                     IF out.raised THEN answers
                     ELSE [answers EXCEPT
                              ![seed] = [input |-> req, result |-> out.result]]
    /\ UNCHANGED apiVars
    /\ UNCHANGED cleanerVars
    /\ UNCHANGED retry

NextTrees ==
    \/ TrainTrees
    \/ PrepareTraining
    \/ TransformNew
    \/ CreateInput
    \/ CrossValidateTrees
    \/ PredictTrees

SpecTrees == Init /\ [][NextTrees]_vars

(***************************************************************************)
(* AffiliationDetector.call_api (affiliation_detector.py): a loop of at    *)
(* most max_retries posts to the inference API.                            *)
(***************************************************************************)
\* the largest max_retries followed
MaxRetries == 3

\* what a post can come to: a 200 whose body is a list or a dict with or
\* without generated_text or an empty list, a 503 while the model loads,
\* another error status (raise_for_status), no response within the timeout
Successes == {"list with text", "dict with text", "dict without text", "empty list"}
RequestErrors == {"http error", "timeout"}
Outcomes == Successes \cup {"loading"} \cup RequestErrors

\* what call_api returns for the body of a 200
ReturnedFor(outcome) ==
    CASE outcome = "list with text" -> "generated"
      [] outcome = "dict with text" -> "generated"
      [] outcome = "dict without text" -> ""
      [] OTHER -> "[]"

\* the test that never finds a last attempt
LastAttemptOffByOne(attempt, max_retries) == attempt = max_retries

\* attempt == max_retries - 1
LastAttempt(attempt, max_retries) == attempt = max_retries - 1

\* the state of the call when range(max_retries) has given i: the next
\* attempt, or the return after the loop
NextOfRange(c, i) ==
    IF i < c.max_retries THEN [c EXCEPT !.attempt = i]
    ELSE [c EXCEPT !.pc = "returned", !.result = ""]

\* one pass of the loop body on call c, the post coming to outcome
Iterate(c, outcome) ==
    LET posted == [c EXCEPT !.posts = Append(@, outcome)]
    IN IF outcome = "loading"
       THEN NextOfRange(posted, c.attempt + 1)
       ELSE IF outcome \in RequestErrors
       THEN IF LastAttempt(c.attempt, c.max_retries)
            THEN [posted EXCEPT !.pc = "raised", !.result = outcome]
            ELSE NextOfRange(posted, c.attempt + 1)
       ELSE [posted EXCEPT !.pc = "returned", !.result = ReturnedFor(outcome)]

\* detector.call_api(prompt, max_retries): the loop is entered, or left at
\* once when max_retries is 0
CallApi ==
    /\ retry.pc # "loop"
    /\ \E n \in 0..MaxRetries :
          retry' = NextOfRange([pc |-> "loop", max_retries |-> n,
                                attempt |-> 0, posts |-> <<>>,
                                result |-> ""], 0)
    /\ UNCHANGED apiVars
    /\ UNCHANGED cleanerVars
    /\ UNCHANGED treeVars

\* one attempt: requests.post and what follows it
Post ==
    /\ retry.pc = "loop"
    /\ \E outcome \in Outcomes : retry' = Iterate(retry, outcome)
    /\ UNCHANGED apiVars
    /\ UNCHANGED cleanerVars
    /\ UNCHANGED treeVars

NextRetry ==
    \/ CallApi
    \/ Post

\* every post ends: it has a timeout of 30 seconds, and the sleep after a
\* 503 is 2 seconds
SpecRetry == Init /\ [][NextRetry]_vars /\ WF_vars(Post)

(***************************************************************************)
(* Claims about the serving endpoint.                                      *)
(***************************************************************************)
Loaded == bootLog = "Model loaded successfully"

\* the category is one of the eight, compared as the handler compares it
KnownFraudType(req) == Lower(req.fraud_type) \in Range(valid_fraud_types)
KnownIndustry(req) == Lower(req.industry) \in Range(valid_industries)

\* C1: with a loaded model, POST /predict answers a request whose
\* fraud_type or industry is outside its vocabulary of eight with 400 and
\* the list of the accepted values, and makes no call of the predictor.
C1_UnknownCategoryRejected ==
    (/\ request.kind = "predict"
     /\ Loaded
     /\ SchemaValid(request.body)
     /\ ~(KnownFraudType(request.body) /\ KnownIndustry(request.body)))
    => /\ response.code = 400
       /\ Len(response.detail.values) = 8
       /\ response.detail.values =
              IF KnownFraudType(request.body)
              THEN valid_industries ELSE valid_fraud_types
       /\ calls = <<>>

\* C1 witness: an unknown industry with a known fraud type was rejected
C1_Witness ==
    /\ request.kind = "predict"
    /\ Loaded
    /\ KnownFraudType(request.body)
    /\ request.body.industry = "bogus"
    /\ response.code = 400

\* C3: with a loaded model, a batch of more than 100 items is answered 400
\* without a call of the predictor, and a batch of exactly 100 is not
\* refused.
C3_BatchSizeLimit ==
    (/\ request.kind = "batch"
     /\ Loaded
     /\ \A i \in DOMAIN request.body : SchemaValid(request.body[i]))
    => /\ Len(request.body) > 100 => (response.code = 400 /\ calls = <<>>)
       /\ Len(request.body) = 100 => response.code = 200

\* C3 witness: a batch of 101 items was refused
C3_Witness ==
    /\ request.kind = "batch"
    /\ Loaded
    /\ Len(request.body) = 101
    /\ response.code = 400

\* the prediction for this item raises in the endpoint's present state
ItemRaises(req) ==
    \/ IsInf(req.damages_claimed)
    \/ ~predictor.model.fitted
    \/ ~predictor.feature_engine.scaler.fitted

\* C4: with a loaded model, a batch of n <= 100 items yields n outcomes in
\* input order, an item is marked failed exactly when its prediction raises
\* (the items after it are processed all the same), total = n and
\* successful + failed = total.
C4_BatchIsolation ==
    (/\ request.kind = "batch"
     /\ Loaded
     /\ Len(request.body) <= 100
     /\ \A i \in DOMAIN request.body : SchemaValid(request.body[i]))
    => /\ response.code = 200
       /\ Len(response.body.results) = Len(request.body)
       /\ Len(calls) = Len(request.body)
       /\ \A i \in DOMAIN request.body :
             /\ response.body.results[i].input = request.body[i]
             /\ response.body.results[i].status =
                    IF ItemRaises(request.body[i]) THEN "failed" ELSE "success"
       /\ response.body.total = Len(request.body)
       /\ response.body.successful + response.body.failed = response.body.total
       /\ response.body.failed =
              Cardinality({i \in DOMAIN request.body : ItemRaises(request.body[i])})

\* C4 witness: item #50 of 100 failed and the items after it succeeded
C4_Witness ==
    /\ request.kind = "batch"
    /\ Loaded
    /\ response.code = 200
    /\ Len(request.body) = 100
    /\ response.body.results[50].status = "failed"
    /\ \A i \in 51..100 : response.body.results[i].status = "success"
    /\ response.body.failed = 1

\* C5: a batch of 100 items of which item #50 alone has damages_claimed <= 0
\* yields 100 outcomes, #50 failed and the other 99 succeeded.
C5_InvalidItemIsolated ==
    (/\ request.kind = "batch"
     /\ Loaded
     /\ predictor.model.fitted
     /\ Len(request.body) = 100
     /\ request.body[50].damages_claimed <= 0
     /\ \A i \in 1..100 : i # 50 => request.body[i] = BaseRequest)
    => /\ response.code = 200
       /\ Len(response.body.results) = 100
       /\ \A i \in 1..100 :
             response.body.results[i].status =
                 IF i = 50 THEN "failed" ELSE "success"

\* C6: the batch endpoint validates each item's fraud_type and industry as
\* POST /predict does: an item outside the vocabularies is marked failed.
C6_BatchValidatesCategories ==
    (/\ request.kind = "batch"
     /\ Loaded
     /\ response.code = 200)
    => \A i \in DOMAIN request.body :
          ~(KnownFraudType(request.body[i]) /\ KnownIndustry(request.body[i]))
              => response.body.results[i].status = "failed"

(***************************************************************************)
(* Claims about training, saving and starting.                             *)
(***************************************************************************)
\* C2: started without a saved model or scaler, the endpoint answers every
\* POST /predict and every GET /model/info with 503.
C2_NotLoadedIs503 ==
    (/\ bootLog = "No saved model found"
     /\ \/ request.kind = "model_info"
        \/ request.kind = "predict" /\ SchemaValid(request.body))
    => response.code = 503

\* C7: once save_model has persisted an artifact set, a start of the
\* endpoint loads the most recently saved model and scaler.
C7_StartupLoadsLatestSave ==
    (started /\ saves > 0)
    => /\ Loaded
       /\ predictor # None
       /\ predictor.model = files[ModelFile(saves)].model
       /\ predictor.feature_engine.scaler = files[ScalerFile(saves)].scaler

\* the feature list a training run of this version stores with its scaler
StoredFeatures(version) == IF version = 0 THEN <<>> ELSE FeatureColumns

\* C8: a load succeeds only on a matched set: the model and the scaler are
\* of one training run and the feature list stored with the scaler is that
\* run's.
C8_LoadChecksMatchedSet ==
    (started /\ Loaded)
    => /\ files[model_path].model.version = files[scaler_path].scaler.version
       /\ files[scaler_path].feature_columns =
              StoredFeatures(files[model_path].model.version)

\* C9: GET / reports model_loaded = true exactly when the startup hook
\* loaded a model and scaler.
C9_HealthReportsLoaded ==
    request.kind = "health"
    => /\ response.code = 200
       /\ response.body.model_loaded <=> Loaded

(***************************************************************************)
(* Claims about the cleaner.                                               *)
(***************************************************************************)
\* a table validate_data is meant to let through
Acceptable(table) ==
    /\ Len(table) >= 20
    /\ \A i \in 1..Len(table) :
          IsNum(table[i].amount_2024) /\ table[i].amount_2024.num > 0

\* C10: clean_all returns a table only if the cleaned table has at least 20
\* rows and every amount_2024 is positive; otherwise it raises and leaves
\* cleaned_data as the call found it (unset on a cleaner that has not
\* cleaned a table yet), and save_cleaned_data fails while it is unset, so
\* nothing but an accepted table is ever saved.
C10_CleanAllValidates ==
    /\ (cleanCall.op = "clean_all" /\ ~cleanCall.raised)
       => /\ Acceptable(cleaner.cleaned_data)
          /\ cleaner.cleaned_data = cleaner.data
    /\ (cleanCall.op = "clean_all" /\ cleanCall.raised)
       => cleaner.cleaned_data = cleanCall.prior
    /\ (cleanCall.op = "clean_all" /\ Len(cleanCall.input.table) < 20)
       => cleanCall.raised
    /\ cleanCall.op = "save_cleaned_data"
       => (cleanCall.raised <=> cleaner.cleaned_data = None)
    /\ cleaner.cleaned_data # None => Acceptable(cleaner.cleaned_data)
    /\ output # None => Acceptable(output)

\* C10 as stated: whenever clean_all raises, cleaned_data is unset
\* afterwards.
C10_RaisedLeavesUnset ==
    (cleanCall.op = "clean_all" /\ cleanCall.raised)
    => cleaner.cleaned_data = None

\* C10 witness: save_cleaned_data failed on a cleaner whose clean_all was
\* left with 19 rows and raised
C10_Witness ==
    /\ cleanCall.op = "save_cleaned_data"
    /\ cleanCall.raised
    /\ cleaner.data # None
    /\ Len(cleaner.data) = 19
    /\ cleaner.cleaned_data = None
    /\ output = None

\* the multiplier the table of the specification gives for a year, times 100
TableMultiplier(year) ==
    CASE year = 2010 -> 151 [] year = 2011 -> 147 [] year = 2012 -> 143
      [] year = 2013 -> 140 [] year = 2014 -> 137 [] year = 2015 -> 134
      [] year = 2016 -> 134 [] year = 2017 -> 131 [] year = 2018 -> 128
      [] year = 2019 -> 124 [] year = 2020 -> 121 [] year = 2021 -> 117
      [] year = 2022 -> 112 [] year = 2023 -> 104 [] year = 2024 -> 100
      [] OTHER -> 150

\* C11: every row that clean_dates leaves in the table has amount_2024 =
\* amount times the multiplier of its settlement_year (1.5 for a year
\* before 2010 or after 2024), and amount_2024 > 0.
C11_AdjustedAmount ==
    cleaner.data # None
    => \A i \in 1..Len(cleaner.data) :
          /\ IsNum(cleaner.data[i].amount_2024)
          /\ cleaner.data[i].amount_2024.num > 0
          /\ cleaner.data[i].amount_2024.num =
                 (cleaner.data[i].amount.num \div 100)
                 * TableMultiplier(cleaner.data[i].settlement_year.num)

\* C12: in a cleaned table defendant_size is 0 below 1,000,000, 1 from
\* 1,000,000 to below 10,000,000 and 2 from 10,000,000 on: each threshold
\* belongs to the larger class.
C12_SizeThresholds ==
    cleaner.cleaned_data # None
    => \A i \in 1..Len(cleaner.cleaned_data) :
          cleaner.cleaned_data[i].defendant_size.num =
              IF cleaner.cleaned_data[i].amount_2024.num < 1000000 THEN 0
              ELSE IF cleaner.cleaned_data[i].amount_2024.num < 10000000 THEN 1
              ELSE 2

AdjustedAmounts ==
    {cleaner.cleaned_data[i].amount_2024.num :
         i \in 1..Len(cleaner.cleaned_data)}

\* C14: after a clean_all that returned, the amount statistics of get_stats
\* are those of amount_2024 over the rows of the cleaned table: as many
\* values as the table has rows, its least and its greatest amount_2024.
C14_StatsOfCleanedTable ==
    (cleanCall.op = "clean_all" /\ ~cleanCall.raised)
    => /\ GetStats(cleaner).amount_stats.count = Len(cleaner.cleaned_data)
       /\ \A v \in AdjustedAmounts :
             /\ GetStats(cleaner).amount_stats.min.num <= v
             /\ GetStats(cleaner).amount_stats.max.num >= v
       /\ GetStats(cleaner).amount_stats.min.num \in AdjustedAmounts
       /\ GetStats(cleaner).amount_stats.max.num \in AdjustedAmounts

(***************************************************************************)
(* Claims about the feature engine and the predictor.                      *)
(***************************************************************************)
\* C15: on a fitted feature engine every matrix that prepare_training_data,
\* transform_new_data or create_prediction_input returns has the same 12
\* columns in the same order, whatever the number of rows and whatever was
\* called before.
C15_TwelveColumns ==
    (/\ tcall.op \in {"prepare_training_data", "transform_new_data",
                      "create_prediction_input"}
     /\ ~tcall.raised
     /\ tpredictor.feature_engine.scaler.fitted)
    => /\ Len(tcall.X.columns) = 12
       /\ tcall.X.columns =
              <<"fraud_type_code", "industry_code", "jurisdiction_code",
                "whistleblower", "defendant_size", "settlement_year",
                "fraud_severity", "industry_fraud_interaction",
                "years_since_2010", "whistleblower_fraud_interaction",
                "jurisdiction_risk", "size_fraud_interaction">>
       /\ \A i \in 1..Len(tcall.X.rows) :
             DOMAIN tcall.X.rows[i] = Range(tcall.X.columns)

\* C15 witness: prepare_training_data returned a matrix of two rows on an
\* engine that was fitted and had transformed a table before
C15_Witness ==
    /\ tcall.op = "prepare_training_data"
    /\ ~tcall.raised
    /\ tcall.prior.feature_engine.scaler.fitted
    /\ Len(tcall.X.rows) = 2

\* C16: a jurisdiction of the training table has the same jurisdiction_code
\* in the training matrix as create_prediction_input computes for it.
C16_OneJurisdictionEncoding ==
    (tcall.op = "train" /\ ~tcall.raised)
    => \A i \in 1..Len(tcall.input) : \A seed \in HashSeeds :
          "jurisdiction" \in DOMAIN tcall.input[i] =>
          tcall.X.rows[i].jurisdiction_code.num =
              CreatePredictionInput(
                  tpredictor.feature_engine, seed,
                  [BaseRequest EXCEPT
                      !.jurisdiction = tcall.input[i].jurisdiction.text]
              ).X.rows[1].jurisdiction_code

\* least and greatest of the per-tree predictions of the last call
LeastTree ==
    CHOOSE v \in Range(tcall.tree_predictions) :
        \A w \in Range(tcall.tree_predictions) : v <= w
GreatestTree ==
    CHOOSE v \in Range(tcall.tree_predictions) :
        \A w \in Range(tcall.tree_predictions) : v >= w

\* C17: a prediction of a trained forest has predicted_low <= predicted_mid
\* <= predicted_high, all three between the back-transforms of the least
\* and the greatest per-tree prediction.
C17_OrderedRange ==
    (tcall.op = "predict_settlement_range" /\ ~tcall.raised)
    => /\ tcall.result.predicted_low <= tcall.result.predicted_mid
       /\ tcall.result.predicted_mid <= tcall.result.predicted_high
       /\ 2 ^ (4 * LeastTree) - 1 <= tcall.result.predicted_low
       /\ tcall.result.predicted_high <= 2 ^ (4 * GreatestTree) - 1

\* C17 witness: three trees that disagree, predicted_low below
\* predicted_high
C17_Witness ==
    /\ tcall.op = "predict_settlement_range"
    /\ ~tcall.raised
    /\ Len(tcall.tree_predictions) = 3
    /\ tcall.tree_predictions[1] > tcall.tree_predictions[2]
    /\ tcall.result.predicted_low < tcall.result.predicted_high

\* C18: confidence = 1 - min(std / 2, 0.5) for the standard deviation of
\* the per-tree predictions: it lies in [0.5, 1], is 1 when the trees
\* agree and 0.5 when std >= 1.  With confidence = 1 - sqrt(a / b):
\* 0 <= a / b <= 1/4, a = 0 when the trees agree, a / b = 1/4 when the
\* variance is at least 1, and a / b = variance / 4 below that.
C18_Confidence ==
    (tcall.op = "predict_settlement_range" /\ ~tcall.raised)
    => LET a == tcall.result.confidence.one_minus_sqrt[1]
           b == tcall.result.confidence.one_minus_sqrt[2]
           n == Len(tcall.tree_predictions)
           num == n * SumOf([i \in 1..n |-> tcall.tree_predictions[i]
                                            * tcall.tree_predictions[i]])
                  - SumOf(tcall.tree_predictions) * SumOf(tcall.tree_predictions)
       IN /\ b > 0 /\ 0 <= a /\ 4 * a <= b
          /\ LeastTree = GreatestTree => a = 0
          /\ num >= n * n => 4 * a = b
          /\ num < n * n => a * 4 * n * n = num * b

\* C18 witness: trees whose predictions have a standard deviation of 1 or
\* more, confidence 0.5
C18_Witness ==
    /\ tcall.op = "predict_settlement_range"
    /\ ~tcall.raised
    /\ GreatestTree - LeastTree >= 3
    /\ tcall.result.confidence.one_minus_sqrt = <<1, 4>>

\* C19: two processes that hold the same model and scaler give the same
\* low, mid, high and confidence for the same input.
C19_SameAcrossProcesses ==
    \A s1, s2 \in HashSeeds :
        (/\ answers[s1] # None
         /\ answers[s2] # None
         /\ answers[s1].input = answers[s2].input)
        => answers[s1].result = answers[s2].result

\* C20: cross_validate leaves the model as it found it: an unfitted model
\* stays unfitted and every prediction is what it was before the call.
C20_CrossValidateFrame ==
    tcall.op = "cross_validate"
    => /\ tpredictor.model = tcall.prior.model
       /\ tpredictor.model.fitted = tcall.prior.model.fitted
       /\ \A seed \in HashSeeds, req \in TreeRequests :
             TreePredictSettlementRange(tpredictor, seed, req).result
             = TreePredictSettlementRange(tcall.prior, seed, req).result

\* C20 witness: cross_validate returned its scores on a fitted predictor
C20_Witness ==
    /\ tcall.op = "cross_validate"
    /\ ~tcall.raised
    /\ tcall.prior.model.fitted
    /\ tcall.result # None

(***************************************************************************)
(* Claims about the endpoint's model information and error handling.       *)
(***************************************************************************)
\* C21: after the endpoint has loaded a saved artifact set, GET /model/info
\* returns the training statistics stored with that set at training time,
\* not the empty value.
C21_InfoReturnsStoredStats ==
    (/\ started
     /\ bootLog = "Model loaded successfully"
     /\ request.kind = "model_info"
     /\ response.code = 200)
    => /\ response.body.training_stats # 0
       /\ \E ts \in 1..MaxSaves :
             /\ Exists(files, ModelFile(ts))
             /\ files[ModelFile(ts)] = files[model_path]
             /\ response.body.training_stats
                = files[MetadataFile(ts)].training_stats

(***************************************************************************)
(* Claims about the cleaning steps.                                        *)
(***************************************************************************)
\* the last call was clean_all on a file it could load
CleanedAFile ==
    cleanCall.op = "clean_all" /\ Loadable(cleanCall.input.filepath)

\* the table of the last clean_all after clean_amounts
AfterCleanAmounts == CleanAmounts(cleanCall.input.table).data

\* the table of the last clean_all as remove_duplicates finds it
BeforeRemoveDuplicates ==
    CleanerCreateFeatures(
        EncodeCategories(CleanDates(AfterCleanAmounts))).data

\* C22: after clean_amounts no remaining row has a non-numeric amount: a
\* row whose amount cannot be read as a number is removed like a row whose
\* amount is missing.
C22_NoNonNumericAmount ==
    CleanedAFile
    => /\ \A i \in 1..Len(AfterCleanAmounts) :
             IsNum(AfterCleanAmounts[i].amount)
       /\ \A i \in 1..Len(cleaner.data) : IsNum(cleaner.data[i].amount)

\* C23: clean_amounts removes exactly the rows whose amount is below 10,000
\* or above 1,000,000,000: a row with a numeric amount within the limits is
\* kept, and every row that remains has 10,000 <= amount <= 1,000,000,000.
C23_AmountRange ==
    CleanedAFile
    => /\ \A i \in 1..Len(cleanCall.input.table) :
             LET r == cleanCall.input.table[i]
             IN (/\ IsNum(r.amount)
                 /\ r.amount.num >= 10000
                 /\ r.amount.num <= 1000000000)
                => \E k \in 1..Len(AfterCleanAmounts) :
                      AfterCleanAmounts[k] = r
       /\ \A k \in 1..Len(AfterCleanAmounts) :
             /\ IsNum(AfterCleanAmounts[k].amount)
             /\ AfterCleanAmounts[k].amount.num >= 10000
             /\ AfterCleanAmounts[k].amount.num <= 1000000000

\* row i is the first of the table with its (defendant, amount,
\* settlement_year)
FirstOfItsKey(data, i) ==
    \A j \in 1..(i - 1) :
        <<data[j].defendant, data[j].amount, data[j].settlement_year>>
        # <<data[i].defendant, data[i].amount, data[i].settlement_year>>

\* C24: in the table clean_all returns no two rows share (defendant,
\* amount, settlement_year), and of the rows that reached remove_duplicates
\* exactly the first of each triple is kept, in input order.
C24_FirstOfEachTriple ==
    (cleanCall.op = "clean_all" /\ ~cleanCall.raised)
    => LET out == cleaner.cleaned_data
           inp == BeforeRemoveDuplicates
       IN /\ \A i, j \in 1..Len(out) :
                 i < j
                 => <<out[i].defendant, out[i].amount, out[i].settlement_year>>
                    # <<out[j].defendant, out[j].amount, out[j].settlement_year>>
          /\ \A i \in 1..Len(inp) :
                 FirstOfItsKey(inp, i) <=> \E k \in 1..Len(out) : out[k] = inp[i]
          /\ \A k, l \in 1..Len(out) :
                 k < l
                 => \E i, j \in 1..Len(inp) :
                       i < j /\ inp[i] = out[k] /\ inp[j] = out[l]

\* C24 witness: clean_all returned a table from an input in which two rows
\* share a triple and differ in another column
C24_Witness ==
    /\ cleanCall.op = "clean_all"
    /\ ~cleanCall.raised
    /\ \E i, j \in 1..Len(BeforeRemoveDuplicates) :
          /\ i < j
          /\ ~FirstOfItsKey(BeforeRemoveDuplicates, j)
          /\ BeforeRemoveDuplicates[i].defendant
             = BeforeRemoveDuplicates[j].defendant
          /\ BeforeRemoveDuplicates[i] # BeforeRemoveDuplicates[j]
    /\ Len(cleaner.cleaned_data) = Len(BeforeRemoveDuplicates) - 1

\* C25: after encode_categories every row's fraud_type_code and
\* industry_code is an integer in 0..7: a missing value and a value outside
\* the enumeration both get the code of "other", 7, never a missing code.
C25_CodesInRange ==
    CleanedAFile
    => LET enc == EncodeCategories(CleanDates(AfterCleanAmounts))
       IN /\ \A i \in 1..Len(enc) :
                 /\ IsNum(enc[i].fraud_type_code)
                 /\ enc[i].fraud_type_code.num \in 0..7
                 /\ IsNum(enc[i].industry_code)
                 /\ enc[i].industry_code.num \in 0..7
          /\ \A i \in 1..Len(cleaner.data) :
                 "fraud_type_code" \in DOMAIN cleaner.data[i]
                 => IsNum(cleaner.data[i].fraud_type_code)

\* C29: the cleaner's defendant_size of a row equals the defendant_size
\* that create_prediction_input gives to damages_claimed = the row's
\* amount_2024.
C29_SameDefendantSize ==
    (cleanCall.op = "clean_all" /\ ~cleanCall.raised)
    => \A i \in 1..Len(cleaner.cleaned_data) :
          cleaner.cleaned_data[i].defendant_size.num
          = QueryDefendantSize(cleaner.cleaned_data[i].amount_2024.num)

(***************************************************************************)
(* Claims about the request handlers.                                      *)
(***************************************************************************)
\* the last request was a POST /predict that reached the handler's try
\* block
PredictTried ==
    /\ started
    /\ request.kind = "predict"
    /\ SchemaValid(request.body)
    /\ ~ModelNotLoaded(predictor)

\* the categories of the last request are in the handler's lists
CategoriesListed ==
    /\ InList(Lower(request.body.fraud_type), valid_fraud_types)
    /\ InList(Lower(request.body.industry), valid_industries)

\* C26: in POST /predict an exception raised while the features are built
\* or the forest is asked becomes a 500 response, and the handler's own 400
\* rejection passes through as a 400, never as a 500.
C26_ErrorsOfPredict ==
    PredictTried
    => /\ ~CategoriesListed => (response.code = 400 /\ calls = <<>>)
       /\ CategoriesListed
          => /\ Len(calls) = 1
             /\ response.code \in {200, 500}
             /\ response.code = 500
                <=> \/ ~predictor.model.fitted
                    \/ ~predictor.feature_engine.scaler.fitted
                    \/ IsInf(request.body.damages_claimed)
             /\ response.code = 500 => response.detail.msg = "Prediction failed"

\* C26 witness: a request with listed categories whose prediction raised,
\* answered 500
C26_Witness ==
    /\ PredictTried
    /\ CategoriesListed
    /\ predictor.model.fitted
    /\ IsInf(request.body.damages_claimed)
    /\ response.code = 500

\* C27: once startup has loaded a saved model no request handler changes
\* the global predictor: its model, its scaler and its feature-name list
\* stay as the startup hook left them.
C27_HandlersLeavePredictor ==
    [][(started /\ started' /\ bootLog = "Model loaded successfully")
       => predictor' = predictor]_vars

\* C28: prepare_training_data on an engine whose feature list is already
\* set, given a cleaned table that does not yet have the derived
\* interaction columns, builds those columns and returns the 12-column
\* matrix, as the first call does.
C28_PrepareAgain ==
    (/\ tcall.op = "prepare_training_data"
     /\ tcall.prior.feature_engine.feature_columns # <<>>
     /\ Len(tcall.input) > 0
     /\ \A i \in 1..Len(tcall.input) :
           /\ {"fraud_type_code", "industry_code", "jurisdiction_code",
               "whistleblower", "defendant_size", "log_amount",
               "settlement_year", "fraud_severity"}
                  \subseteq DOMAIN tcall.input[i]
           /\ "industry_fraud_interaction" \notin DOMAIN tcall.input[i])
    => /\ ~tcall.raised
       /\ Len(tcall.X.columns) = 12
       /\ Len(tcall.X.rows) = Len(tcall.input)

(***************************************************************************)
(* Claims about call_api.                                                  *)
(***************************************************************************)
\* C30: call_api ends after at most max_retries posts: it returns the
\* generated text of the first attempt that succeeds, goes on to the next
\* attempt after a 503 or a failed request on any attempt but the last,
\* raises the request error only when it occurs on the last attempt, and
\* returns the empty string when the attempts end with a 503.
C30_CallApiTerminates ==
    /\ [](
        LET n == Len(retry.posts)
            Retried(i) == retry.posts[i] \in {"loading"} \cup RequestErrors
        IN /\ n <= retry.max_retries
           /\ \A i \in 1..(n - 1) : Retried(i)
           /\ retry.pc = "loop" => (n < retry.max_retries /\ \A i \in 1..n : Retried(i))
           /\ retry.pc = "raised"
              <=> (n > 0 /\ n = retry.max_retries /\ retry.posts[n] \in RequestErrors)
           /\ retry.pc = "raised" => retry.result = retry.posts[n]
           /\ retry.pc = "returned"
              => \/ /\ n > 0
                    /\ retry.posts[n] \in {"list with text", "dict with text"}
                    /\ retry.result = "generated"
                 \/ /\ n > 0
                    /\ retry.posts[n] \in {"dict without text", "empty list"}
                 \/ /\ n = retry.max_retries
                    /\ n > 0 => retry.posts[n] = "loading"
                    /\ retry.result = "")
    /\ (retry.pc = "loop") ~> (retry.pc \in {"returned", "raised"})

\* C30 witness: a call with max_retries 3 that was retried after a failed
\* request and after a 503 and returned the text of its third attempt
C30_Witness ==
    /\ retry.pc = "returned"
    /\ retry.max_retries = 3
    /\ retry.posts = <<"timeout", "loading", "list with text">>
    /\ retry.result = "generated"

====
